---- MODULE Spec2Model ----
(***************************************************************************)
(* Equipment-type hierarchy: path reconstruction, classification          *)
(* validation, path resolution, the cascading selection component and     *)
(* the hierarchy-summary cache of Omcci/test-technique-web-v2.             *)
(*                                                                         *)
(* A node of the taxonomy is a record [id, name, level, parentId]; ids    *)
(* are positive integers (the position of the row in the table), 0 is a   *)
(* null parentId and the empty id ''.  The string "undefined" stands for  *)
(* an absent/undefined/null field, "" for the empty string.               *)
(***************************************************************************)
EXTENDS Integers, Sequences, FiniteSets, TLC

\* ---- bounds -------------------------------------------------------------
MaxNodes == 4
MaxImported == 6
MaxRows == 2
MaxSummarized == 3
MaxTicks == 3
MaxNameLen == 2
MaxRelevant == 2
MaxClassified == 2
MaxResponse == 3
MaxMillis == 3
MaxCreated == 2
MaxFileRows == 1
MaxExpiries == 1
MaxCommits == 4

\* ---- values -------------------------------------------------------------
Names == {"a", "b"}
undefined == "undefined"
NoNode == [id |-> 0, name |-> undefined, level |-> 0, parentId |-> 0]
\* a digest is the sequence of its lines <<indent, name, count>>; null is a
\* value no digest equals
null == << <<-1, "null", 0>> >>
\* private readonly CACHE_DURATION = 5 * 60 * 1000
CACHE_DURATION == 5 * 60 * 1000
NoDetection == [domain |-> "none", type |-> "none", category |-> "none", subcategory |-> "none"]
NotCalled == -1
\* the detectEquipmentType requests in flight at once
Requests == {1, 2}
NoResponse == [kind |-> "none"]
NoError == "none"
\* a text is the sequence of its characters
Chars == {"V", "v", "x"}
\* the characters of the names of equipment types
NameChars == {"V", "x"}
NoText == <<"undefined">>
NotExtracted == <<<<"none">>>>
NotReturned == [confidence |-> -1]

VARIABLES
    equipmentTypes,   \* the rows of equipment_types, in findMany order
    rowsRead,         \* CSV rows importEquipmentTypes has created nodes from
    detection,        \* the candidate given to validateDetection
    result,           \* an AIDetectionResult / hierarchy record
    equipmentType,    \* id of the node given to getEquipmentTypeHierarchy
    targetId,         \* what findEquipmentTypeIdFromHierarchy returned
    mounted,          \* CascadeEquipmentTypeSelect is mounted with the types loaded
    value,            \* its value prop (formData.equipmentTypeId), 0 for ''
    selectedDomain, selectedType, selectedCategory, selectedSubcategory,
    pendingUpdateParent,  \* the "update parent" effect runs after this render
    pendingInitialize,    \* the "initialize from current value" effect runs
    cachedHierarchySummary,  \* AIDetectionService's cached digest, null at first
    lastCacheUpdate,         \* Date.now() of the last rebuild, 0 at first
    now,                     \* the clock, in ms
    hierarchySummary,        \* what the last getHierarchySummary returned
    lastMutation,            \* the time of the last write to equipment_types
    keywords,                \* what extractKeywords returned
    relevantTypes,           \* what getRelevantEquipmentTypes returned
    pc,                      \* where each detectEquipmentType request stands
    snapshot,                \* the equipmentTypes each request got from findAll
    aiResponse,              \* the classifier's answer to the last request served
    caught,                  \* the error detectEquipmentType's catch block logged
    validatedDetection       \* what the last detectEquipmentType returned

requestVars == <<detection, result, equipmentType, targetId>>
slotVars == <<selectedDomain, selectedType, selectedCategory, selectedSubcategory>>
cascadeVars == <<mounted, value, slotVars, pendingUpdateParent, pendingInitialize>>
cacheVars == <<cachedHierarchySummary, lastCacheUpdate, now, hierarchySummary>>
promptVars == <<keywords, relevantTypes>>
detectVars == <<pc, snapshot, aiResponse, caught, validatedDetection>>
serviceVars == <<promptVars, detectVars>>
vars == <<equipmentTypes, rowsRead, requestVars, cascadeVars, cacheVars, serviceVars, lastMutation>>

\* ---- the tree -----------------------------------------------------------
Range(s) == {s[i] : i \in DOMAIN s}

ById(types, id) ==
    IF \E i \in DOMAIN types : types[i].id = id
    THEN types[CHOOSE i \in DOMAIN types : types[i].id = id]
    ELSE NoNode

\* t.parent as loaded by findAll's include / the GraphQL selection
Parent(types, t) == IF t.parentId = 0 THEN NoNode ELSE ById(types, t.parentId)

\* t.parent?.name, t.parent?.parent?.name, t.parent?.parent?.parent?.name
ParentName(types, t) == Parent(types, t).name
ParentName2(types, t) == Parent(types, Parent(types, t)).name
ParentName3(types, t) == Parent(types, Parent(types, Parent(types, t))).name

\* array.find: the first element satisfying the test, NoNode for undefined
Find(types, Test(_)) ==
    IF \E i \in DOMAIN types : Test(types[i])
    THEN types[CHOOSE i \in DOMAIN types :
                   Test(types[i]) /\ \A j \in 1..(i-1) : ~Test(types[j])]
    ELSE NoNode

\* ---- EquipmentType.create + EquipmentTypeRepository.create ---------------
\* EquipmentType.create(data): {...data, id, level: data.level || 1}; the
\* level and the parentId of the input are optional, 0 stands for an absent one
create(id, data) ==
    [id |-> id,
     name |-> data.name,
     level |-> IF data.level # 0 THEN data.level ELSE 1,
     parentId |-> data.parentId]

\* createEquipmentType by a caller that gives the level its parentId calls
\* for: 1 without a parent, the parent's level + 1 under a parent
CreateEquipmentType(name, parentId) ==
    /\ Len(equipmentTypes) < MaxNodes
    /\ detection = NoDetection /\ equipmentType = 0   \* no request recorded yet
    /\ targetId = NotCalled
    /\ parentId = 0 \/ (parentId \in 1..Len(equipmentTypes)
                        /\ equipmentTypes[parentId].level < 4)
    /\ equipmentTypes' = Append(equipmentTypes,
          create(Len(equipmentTypes) + 1,
                 [name |-> name,
                  level |-> IF parentId = 0 THEN 1
                            ELSE equipmentTypes[parentId].level + 1,
                  parentId |-> parentId]))
    /\ lastMutation' = now
    /\ UNCHANGED <<rowsRead, requestVars, cascadeVars, cacheVars, serviceVars>>

\* ---- getEquipmentTypeHierarchy (utils.ts; the service has the same walk) --
Truthy(s) == s # undefined /\ s # ""

\* while (currentType) { pathParts.unshift(currentType.name);
\*                       currentType = currentType.parent; }
\* parent is loaded three levels deep, so the walk sees at most 4 nodes.
\* (mutant) push instead of unshift: the names come out leaf first
RECURSIVE PathPartsPush(_, _, _)
PathPartsPush(types, t, depth) ==
    IF t = NoNode \/ depth > 3 THEN <<>>
    ELSE <<t.name>> \o PathPartsPush(types, Parent(types, t), depth + 1)

RECURSIVE PathParts(_, _, _)
PathParts(types, t, depth) ==
    IF t = NoNode \/ depth > 3 THEN <<>>
    ELSE Append(PathParts(types, Parent(types, t), depth + 1), t.name)

\* pathParts[i] of a JS array: undefined past the end
At(parts, i) == IF i \in DOMAIN parts THEN parts[i] ELSE undefined

getEquipmentTypeHierarchy(types, t) ==
    IF t = NoNode
    THEN [domain |-> undefined, type |-> undefined,
          category |-> undefined, subcategory |-> undefined]
    ELSE LET pathParts == PathParts(types, t, 0)
         IN  [domain |-> At(pathParts, 1), type |-> At(pathParts, 2),
              category |-> At(pathParts, 3), subcategory |-> At(pathParts, 4)]

\* ---- findEquipmentTypeIdFromHierarchy (utils.ts) --------------------------
\* (mutant) a level at which nothing is found falls through to the next
\* shallower level
findEquipmentTypeIdOrShallower(r, types) ==
    LET sub == Find(types, LAMBDA t : /\ t.level = 4
                                      /\ t.name = r.subcategory
                                      /\ ParentName(types, t) = r.category
                                      /\ ParentName2(types, t) = r.type
                                      /\ ParentName3(types, t) = r.domain).id
        cat == Find(types, LAMBDA t : /\ t.level = 3
                                      /\ t.name = r.category
                                      /\ ParentName(types, t) = r.type
                                      /\ ParentName2(types, t) = r.domain).id
        typ == Find(types, LAMBDA t : /\ t.level = 2
                                      /\ t.name = r.type
                                      /\ ParentName(types, t) = r.domain).id
        dom == Find(types, LAMBDA t : t.level = 1 /\ t.name = r.domain).id
    IN  IF Truthy(r.subcategory) /\ sub # 0 THEN sub
        ELSE IF Truthy(r.category) /\ cat # 0 THEN cat
        ELSE IF Truthy(r.type) /\ typ # 0 THEN typ
        ELSE IF Truthy(r.domain) THEN dom
        ELSE 0

findEquipmentTypeIdFromHierarchy(r, types) ==
    IF Truthy(r.subcategory) THEN
        Find(types, LAMBDA t : /\ t.level = 4
                               /\ t.name = r.subcategory
                               /\ ParentName(types, t) = r.category
                               /\ ParentName2(types, t) = r.type
                               /\ ParentName3(types, t) = r.domain).id
    ELSE IF Truthy(r.category) THEN
        Find(types, LAMBDA t : /\ t.level = 3
                               /\ t.name = r.category
                               /\ ParentName(types, t) = r.type
                               /\ ParentName2(types, t) = r.domain).id
    ELSE IF Truthy(r.type) THEN
        Find(types, LAMBDA t : /\ t.level = 2
                               /\ t.name = r.type
                               /\ ParentName(types, t) = r.domain).id
    ELSE IF Truthy(r.domain) THEN
        Find(types, LAMBDA t : t.level = 1 /\ t.name = r.domain).id
    ELSE 0

\* ---- AIDetectionService.validateDetection --------------------------------
\* array.some
Some(types, Test(_)) == \E i \in DOMAIN types : Test(types[i])

\* (mutant) the subcategory test looks for its node at level 3
validateDetectionSubLevel(d, types) ==
    LET domainExists ==
            /\ Truthy(d.domain)
            /\ Some(types, LAMBDA t : t.level = 1 /\ t.name = d.domain)
        typeExists ==
            /\ Truthy(d.type) /\ Truthy(d.domain)
            /\ Some(types, LAMBDA t : /\ t.level = 2
                                      /\ t.name = d.type
                                      /\ ParentName(types, t) = d.domain)
        categoryExists ==
            /\ Truthy(d.category) /\ Truthy(d.type)
            /\ Some(types, LAMBDA t : /\ t.level = 3
                                      /\ t.name = d.category
                                      /\ ParentName(types, t) = d.type)
        subcategoryExists ==
            /\ Truthy(d.subcategory) /\ Truthy(d.category)
            /\ Some(types, LAMBDA t : /\ t.level = 3
                                      /\ t.name = d.subcategory
                                      /\ ParentName(types, t) = d.category)
    IN  [domain      |-> IF domainExists THEN d.domain ELSE undefined,
         type        |-> IF typeExists THEN d.type ELSE undefined,
         category    |-> IF categoryExists THEN d.category ELSE undefined,
         subcategory |-> IF subcategoryExists THEN d.subcategory ELSE undefined]

validateDetection(d, types) ==
    LET domainExists ==
            /\ Truthy(d.domain)
            /\ Some(types, LAMBDA t : t.level = 1 /\ t.name = d.domain)
        typeExists ==
            /\ Truthy(d.type) /\ Truthy(d.domain)
            /\ Some(types, LAMBDA t : /\ t.level = 2
                                      /\ t.name = d.type
                                      /\ ParentName(types, t) = d.domain)
        categoryExists ==
            /\ Truthy(d.category) /\ Truthy(d.type)
            /\ Some(types, LAMBDA t : /\ t.level = 3
                                      /\ t.name = d.category
                                      /\ ParentName(types, t) = d.type)
        subcategoryExists ==
            /\ Truthy(d.subcategory) /\ Truthy(d.category)
            /\ Some(types, LAMBDA t : /\ t.level = 4
                                      /\ t.name = d.subcategory
                                      /\ ParentName(types, t) = d.category)
    IN  [domain      |-> IF domainExists THEN d.domain ELSE undefined,
         type        |-> IF typeExists THEN d.type ELSE undefined,
         category    |-> IF categoryExists THEN d.category ELSE undefined,
         subcategory |-> IF subcategoryExists THEN d.subcategory ELSE undefined]

\* ---- requests -------------------------------------------------------------
\* No request has been recorded yet.  The table is filled before requests are
\* served, and each recorded request is one call on the table as it stands.
Idle == detection = NoDetection /\ equipmentType = 0 /\ targetId = NotCalled

Fields == Names \cup {undefined}
Candidates == [domain : Fields, type : Fields, category : Fields, subcategory : Fields]

\* detectEquipmentType's last step on a parsed classifier answer d
ValidateDetection(d) ==
    /\ Idle
    /\ detection' = d
    /\ result' = validateDetection(d, equipmentTypes)
    /\ equipmentType' = 0
    /\ targetId' = NotCalled
    /\ UNCHANGED <<equipmentTypes, rowsRead, cascadeVars, cacheVars, serviceVars, lastMutation>>

\* a caller asks for the path of the node it looked up by id; an id that is
\* not in the tree gives it an undefined node
GetEquipmentTypeHierarchy(id) ==
    /\ Idle
    /\ id \in 1..(Len(equipmentTypes) + 1)
    /\ equipmentType' = id
    /\ result' = getEquipmentTypeHierarchy(equipmentTypes, ById(equipmentTypes, id))
    /\ detection' = NoDetection
    /\ targetId' = NotCalled
    /\ UNCHANGED <<equipmentTypes, rowsRead, cascadeVars, cacheVars, serviceVars, lastMutation>>

\* the client resolves the record it holds to a node id
FindEquipmentTypeIdFromHierarchy ==
    /\ detection # NoDetection \/ equipmentType # 0
    /\ targetId = NotCalled
    /\ targetId' = findEquipmentTypeIdFromHierarchy(result, equipmentTypes)
    /\ UNCHANGED <<equipmentTypes, rowsRead, detection, result, equipmentType, cascadeVars, cacheVars, serviceVars, lastMutation>>

\* a caller resolves a path record of its own, a partial one included
ResolvePath(r) ==
    /\ Idle
    /\ result' = r
    /\ targetId' = findEquipmentTypeIdFromHierarchy(r, equipmentTypes)
    /\ UNCHANGED <<equipmentTypes, rowsRead, detection, equipmentType, cascadeVars, cacheVars, serviceVars, lastMutation>>

Init ==
    /\ equipmentTypes = <<>>
    /\ rowsRead = 0
    /\ detection = NoDetection
    /\ result = NoDetection
    /\ equipmentType = 0
    /\ targetId = NotCalled
    /\ mounted = FALSE
    /\ value = 0
    /\ selectedDomain = "" /\ selectedType = ""
    /\ selectedCategory = "" /\ selectedSubcategory = ""
    /\ pendingUpdateParent = FALSE
    /\ pendingInitialize = FALSE
    /\ cachedHierarchySummary = null
    /\ lastCacheUpdate = 0
    /\ now = CACHE_DURATION     \* some time at least one TTL after the epoch
    /\ hierarchySummary = null
    /\ lastMutation = 0
    /\ keywords = NotExtracted
    /\ relevantTypes = <<>>
    /\ pc = [r \in Requests |-> "idle"]
    /\ snapshot = [r \in Requests |-> <<>>]
    /\ aiResponse = NoResponse
    /\ caught = NoError
    /\ validatedDetection = NotReturned

Next ==
    \/ \E name \in Names, parentId \in 0..MaxNodes : CreateEquipmentType(name, parentId)
    \/ \E d \in Candidates : ValidateDetection(d)
    \/ \E id \in 1..(MaxNodes + 1) : GetEquipmentTypeHierarchy(id)
    \/ FindEquipmentTypeIdFromHierarchy
    \/ \E r \in Candidates : ResolvePath(r)

Spec == Init /\ [][Next]_vars

\* ==== properties of validation and path resolution (Spec) ==================
\* The tree as the data model describes it, independently of the code's walk.
RECURSIVE Up(_, _, _)
Up(types, t, k) == IF k = 0 THEN t ELSE Up(types, Parent(types, t), k - 1)

\* the node of level lv on t's parent chain (t itself when lv = t.level)
AncestorAt(types, t, lv) ==
    IF lv \in 1..t.level THEN Up(types, t, t.level - lv) ELSE NoNode

NodePath(types, t) ==
    [domain      |-> AncestorAt(types, t, 1).name,
     type        |-> AncestorAt(types, t, 2).name,
     category    |-> AncestorAt(types, t, 3).name,
     subcategory |-> AncestorAt(types, t, 4).name]

FieldAt(r, lv) ==
    CASE lv = 1 -> r.domain [] lv = 2 -> r.type
      [] lv = 3 -> r.category [] lv = 4 -> r.subcategory

Validated == detection # NoDetection
Resolved == targetId # NotCalled
\* the path of a node of the tree was asked for
KnownNode == equipmentType \in 1..Len(equipmentTypes)
\* the path of a node that is not in the tree was asked for
UnknownNode == equipmentType # 0 /\ ~KnownNode
\* a caller's own path record was resolved
PathSupplied == Resolved /\ detection = NoDetection /\ equipmentType = 0

\* C1: the result of validateDetection is prefix-closed: a field at level k
\* is present only if the field at level k-1 is present in the result.
C1_PrefixClosed ==
    Validated =>
        \A lv \in 2..4 :
            FieldAt(result, lv) # undefined => FieldAt(result, lv - 1) # undefined

\* C2: a candidate whose domain names no level-1 node gets every field absent.
C2_UnknownDomainAllAbsent ==
    (/\ Validated
     /\ ~\E i \in DOMAIN equipmentTypes :
            equipmentTypes[i].level = 1 /\ equipmentTypes[i].name = detection.domain)
    => \A lv \in 1..4 : FieldAt(result, lv) = undefined

\* C3: whenever validateDetection returns a field, the returned fields name
\* one root-to-node chain, so findEquipmentTypeIdFromHierarchy applied to the
\* validated result returns the id of a node with exactly that path.
C3_ValidatedResolves ==
    (/\ Validated /\ Resolved
     /\ \E lv \in 1..4 : FieldAt(result, lv) # undefined)
    => /\ targetId # 0
       /\ NodePath(equipmentTypes, ById(equipmentTypes, targetId)) = result

C5_RoundTrip ==
    (KnownNode /\ Resolved) => targetId = equipmentType

Deepest(r) ==
    IF \E lv \in 1..4 : FieldAt(r, lv) # undefined
    THEN CHOOSE lv \in 1..4 : /\ FieldAt(r, lv) # undefined
                              /\ \A k \in (lv + 1)..4 : FieldAt(r, k) = undefined
    ELSE 0

\* t is at the level of r's deepest supplied field, is named by that field,
\* and its ancestors match every shallower field that was supplied
MatchesSupplied(types, t, r) ==
    /\ Deepest(r) # 0
    /\ t.level = Deepest(r)
    /\ t.name = FieldAt(r, Deepest(r))
    /\ \A lv \in 1..(Deepest(r) - 1) :
          FieldAt(r, lv) # undefined => AncestorAt(types, t, lv).name = FieldAt(r, lv)

\* C13: resolving a partial path returns a node at the level of the deepest
\* supplied field, named by that field, whose ancestors match every supplied
\* shallower field; a field that was not supplied constrains nothing, so
\* {domain, category} resolves to a category node under that domain.
C13_PartialPathResolves ==
    (/\ PathSupplied
     /\ \E i \in DOMAIN equipmentTypes :
            MatchesSupplied(equipmentTypes, equipmentTypes[i], result))
    => /\ targetId # 0
       /\ MatchesSupplied(equipmentTypes, ById(equipmentTypes, targetId), result)

\* C14: no fallback to a shallower level: when no node matches at the level
\* of the deepest supplied field the result is the empty id, and a node that
\* is returned is at that level.
C14_NoShallowerFallback ==
    Resolved =>
        /\ (~\E i \in DOMAIN equipmentTypes :
                MatchesSupplied(equipmentTypes, equipmentTypes[i], result))
           => targetId = 0
        /\ targetId # 0 => ById(equipmentTypes, targetId).level = Deepest(result)

\* {domain, type, category} was resolved to nothing although {domain, type}
\* names a type of the tree
C14_Witness ==
    /\ PathSupplied
    /\ Deepest(result) = 3
    /\ targetId = 0
    /\ \E i \in DOMAIN equipmentTypes :
          /\ equipmentTypes[i].level = 2
          /\ equipmentTypes[i].name = result.type
          /\ ParentName(equipmentTypes, equipmentTypes[i]) = result.domain

\* the NotFound failure of the path operations
NotFound == [error |-> "NotFound"]

\* C15: asking for the path of an unknown node fails with NotFound; no empty
\* or placeholder path is returned.
C15_UnknownNodeFails ==
    UnknownNode => result = NotFound

\* C25: a validated result is a fixed point of validation: validating the
\* four fields validateDetection returned once more, against the same tree,
\* returns the same four fields.
C25_ValidateIdempotent ==
    Validated => validateDetection(result, equipmentTypes) = result

\* ==== importEquipmentTypes (scripts/import-equipment-types.ts) =============
\* equipmentTypeMap.get(key): the map is filled at each create with the names
\* of the created node's path as key, so a key is looked up among the paths
\* of the rows created so far; 0 stands for undefined.
ImportedId(types, key) ==
    Find(types, LAMBDA t : PathParts(types, t, 0) = key).id

\* prisma.equipmentType.create({data: {name, level, parentId}})
PrismaCreate(types, name, level, parentId) ==
    Append(types, [id |-> Len(types) + 1, name |-> name,
                   level |-> level, parentId |-> parentId])

ImportDomain(types, row) ==
    IF row.main # "" /\ ImportedId(types, <<row.main>>) = 0
    THEN PrismaCreate(types, row.main, 1, 0)
    ELSE types

ImportType(types, row) ==
    LET domainId == ImportedId(types, <<row.main>>)
    IN  IF /\ row.typ # ""
           /\ ImportedId(types, <<row.main, row.typ>>) = 0
           /\ domainId # 0
        THEN PrismaCreate(types, row.typ, 2, domainId)
        ELSE types

ImportCategory(types, row) ==
    LET typeId == ImportedId(types, <<row.main, row.typ>>)
    IN  IF /\ row.cat # ""
           /\ ImportedId(types, <<row.main, row.typ, row.cat>>) = 0
           /\ typeId # 0
        THEN PrismaCreate(types, row.cat, 3, typeId)
        ELSE types

ImportSubcategory(types, row) ==
    LET categoryId == ImportedId(types, <<row.main, row.typ, row.cat>>)
    IN  IF /\ row.subcat # ""
           /\ ImportedId(types, <<row.main, row.typ, row.cat, row.subcat>>) = 0
           /\ categoryId # 0
        THEN PrismaCreate(types, row.subcat, 4, categoryId)
        ELSE types

\* one iteration of  for (const row of rows)
ImportedRow(types, row) ==
    ImportSubcategory(ImportCategory(ImportType(ImportDomain(types, row), row), row), row)

Columns == Names \cup {""}
CSVRows == [main : Columns, typ : Columns, cat : Columns, subcat : Columns]

ImportRow(row) ==
    /\ ~mounted
    /\ rowsRead < MaxRows
    /\ Len(ImportedRow(equipmentTypes, row)) <= MaxImported
    /\ equipmentTypes' = ImportedRow(equipmentTypes, row)
    /\ equipmentTypes' # equipmentTypes
    /\ rowsRead' = rowsRead + 1
    /\ lastMutation' = now
    /\ UNCHANGED <<requestVars, cascadeVars, cacheVars, serviceVars>>

\* ==== node creation: the createEquipmentType mutation and the import =======
\* CreateEquipmentTypeInput: name, level (optional, @Min(1) @Max(4)) and
\* parentId (optional; a foreign key to equipment_types.id)
CreateEquipmentTypeInputs == [name : Names, level : 0..4, parentId : 0..MaxNodes]

\* the createEquipmentType mutation: EquipmentTypeService.create(input)
createEquipmentType(input) ==
    /\ Len(equipmentTypes) < MaxNodes
    /\ input.parentId \in 0..Len(equipmentTypes)
    /\ equipmentTypes' = Append(equipmentTypes, create(Len(equipmentTypes) + 1, input))
    /\ lastMutation' = now
    /\ UNCHANGED <<rowsRead, requestVars, cascadeVars, cacheVars, serviceVars>>

\* for (const row of rows) over the first k rows, from an empty
\* equipmentTypeMap
RECURSIVE ImportedRows(_, _)
ImportedRows(rows, k) ==
    IF k = 0 THEN <<>> ELSE ImportedRow(ImportedRows(rows, k - 1), rows[k])

\* the rows one run creates come after the rows already in the table
Appended(ts, created) ==
    ts \o [i \in 1..Len(created) |->
              [created[i] EXCEPT !.id = @ + Len(ts),
                                 !.parentId = IF @ = 0 THEN 0 ELSE @ + Len(ts)]]

\* the CSV files of at most MaxFileRows rows
CSVFiles == UNION {[1..k -> CSVRows] : k \in 1..MaxFileRows}

\* one run of importEquipmentTypes on a CSV file: its map knows the nodes
\* this run created and no other
importEquipmentTypes(rows) ==
    /\ rowsRead + Len(rows) <= MaxRows
    /\ equipmentTypes' = Appended(equipmentTypes, ImportedRows(rows, Len(rows)))
    /\ Len(equipmentTypes') <= MaxImported
    /\ equipmentTypes' # equipmentTypes
    /\ rowsRead' = rowsRead + Len(rows)
    /\ lastMutation' = now
    /\ UNCHANGED <<requestVars, cascadeVars, cacheVars, serviceVars>>

\* the mutation on a table of fewer than MaxCreated rows
CreateOnSmallTable(input) ==
    /\ Len(equipmentTypes) < MaxCreated
    /\ createEquipmentType(input)

NextCreate ==
    \/ \E input \in CreateEquipmentTypeInputs : CreateOnSmallTable(input)
    \/ \E rows \in CSVFiles : importEquipmentTypes(rows)

SpecCreate == Init /\ [][NextCreate]_vars

\* the data model's invariant on a table: level 1 exactly without a parent,
\* and otherwise the parent's level plus 1
WellFormedTree(ts) ==
    \A i \in DOMAIN ts :
        LET t == ts[i]
        IN  /\ t.level = 1 <=> t.parentId = 0
            /\ t.parentId # 0 => t.level = Parent(ts, t).level + 1

\* C23: after any sequence of node creations every node has level 1 exactly
\* when it has no parent, and otherwise its parent's level plus 1.
C23_LevelIsParentLevelPlusOne == WellFormedTree(equipmentTypes)

\* ==== CascadeEquipmentTypeSelect ==========================================
Slots == [domain |-> selectedDomain, type |-> selectedType,
          category |-> selectedCategory, subcategory |-> selectedSubcategory]

\* unique values for each level
domains == SelectSeq(equipmentTypes, LAMBDA t : t.level = 1)

types ==
    SelectSeq(equipmentTypes, LAMBDA t :
        /\ t.level = 2
        /\ Parent(equipmentTypes, t).id
             = Find(domains, LAMBDA d : d.name = selectedDomain).id)
categories ==
    SelectSeq(equipmentTypes, LAMBDA t :
        /\ t.level = 3
        /\ Parent(equipmentTypes, t).id
             = Find(types, LAMBDA d : d.name = selectedType).id)
subcategories ==
    SelectSeq(equipmentTypes, LAMBDA t :
        /\ t.level = 4
        /\ Parent(equipmentTypes, t).id
             = Find(categories, LAMBDA d : d.name = selectedCategory).id)

ItemNames(items) == {items[i].name : i \in DOMAIN items}

\* search for deepest selected level
findEquipmentTypeId(s, ts) ==
    IF Truthy(s.subcategory) THEN
        Find(ts, LAMBDA t : /\ t.level = 4
                            /\ t.name = s.subcategory
                            /\ ParentName(ts, t) = s.category).id
    ELSE IF Truthy(s.category) THEN
        Find(ts, LAMBDA t : /\ t.level = 3
                            /\ t.name = s.category
                            /\ ParentName(ts, t) = s.type).id
    ELSE IF Truthy(s.type) THEN
        Find(ts, LAMBDA t : /\ t.level = 2
                            /\ t.name = s.type
                            /\ ParentName(ts, t) = s.domain).id
    ELSE IF Truthy(s.domain) THEN
        Find(ts, LAMBDA t : t.level = 1 /\ t.name = s.domain).id
    ELSE 0

\* hierarchy.x || ''
OrEmpty(x) == IF Truthy(x) THEN x ELSE ""

\* (mutant) the initialize effect clears the slots when it finds no node
InitializeFromValueOrClear(v, ts, s) ==
    LET currentType == Find(ts, LAMBDA t : t.id = v)
        hierarchy == getEquipmentTypeHierarchy(ts, currentType)
    IN  IF v # 0 /\ currentType # NoNode
        THEN [domain |-> OrEmpty(hierarchy.domain), type |-> OrEmpty(hierarchy.type),
              category |-> OrEmpty(hierarchy.category),
              subcategory |-> OrEmpty(hierarchy.subcategory)]
        ELSE [domain |-> "", type |-> "", category |-> "", subcategory |-> ""]

\* (mutant) the initialize effect forgets the subcategory slot
InitializeFromValueNoSub(v, ts, s) ==
    LET currentType == Find(ts, LAMBDA t : t.id = v)
        hierarchy == getEquipmentTypeHierarchy(ts, currentType)
    IN  IF v # 0 /\ currentType # NoNode
        THEN [domain |-> OrEmpty(hierarchy.domain), type |-> OrEmpty(hierarchy.type),
              category |-> OrEmpty(hierarchy.category), subcategory |-> s.subcategory]
        ELSE s

\* initialize from current value: the slots the effect leaves (s when it
\* sets nothing); its four setState calls are applied in one render
InitializeFromValue(v, ts, s) ==
    LET currentType == Find(ts, LAMBDA t : t.id = v)
        hierarchy == getEquipmentTypeHierarchy(ts, currentType)
    IN  IF v # 0 /\ currentType # NoNode
        THEN [domain |-> OrEmpty(hierarchy.domain), type |-> OrEmpty(hierarchy.type),
              category |-> OrEmpty(hierarchy.category),
              subcategory |-> OrEmpty(hierarchy.subcategory)]
        ELSE s

\* update parent: the value the parent holds after the effect
\* (onValueChange = setFormData({...formData, equipmentTypeId: value}))
UpdateParent(v, ts, s) ==
    LET equipmentTypeId == findEquipmentTypeId(s, ts)
    IN  IF equipmentTypeId # 0 THEN equipmentTypeId ELSE v

Settled == mounted /\ ~pendingUpdateParent /\ ~pendingInitialize

\* the next render: the slots become s, and the update-parent effect is
\* scheduled when one of its dependencies changed
SetSlots(s) ==
    /\ selectedDomain' = s.domain
    /\ selectedType' = s.type
    /\ selectedCategory' = s.category
    /\ selectedSubcategory' = s.subcategory
    /\ pendingUpdateParent' = (s # Slots)

\* the component mounts with the types loaded and the parent's value v;
\* both effects run after the first render
Mount(v) ==
    /\ ~mounted
    /\ v \in 0..(Len(equipmentTypes) + 1)
    /\ mounted' = TRUE
    /\ value' = v
    /\ pendingUpdateParent' = TRUE
    /\ pendingInitialize' = TRUE
    /\ UNCHANGED <<equipmentTypes, rowsRead, requestVars, cacheVars, serviceVars, lastMutation,
                   slotVars>>

\* the effects of one commit, in declaration order, on that render's values
FlushEffects ==
    /\ mounted
    /\ pendingUpdateParent \/ pendingInitialize
    /\ value' = IF pendingUpdateParent
                THEN UpdateParent(value, equipmentTypes, Slots) ELSE value
    /\ SetSlots(IF pendingInitialize
                THEN InitializeFromValue(value, equipmentTypes, Slots) ELSE Slots)
    /\ pendingInitialize' = (value' # value)
    /\ UNCHANGED <<equipmentTypes, rowsRead, requestVars, cacheVars, serviceVars, lastMutation,
                   mounted>>

\* (mutant) the domain handler leaves the subcategory in place
handleDomainChangeKeepSub(domain) ==
    /\ Settled
    /\ domain \in ItemNames(domains)
    /\ SetSlots([domain |-> domain, type |-> "", category |-> "",
                 subcategory |-> selectedSubcategory])
    /\ UNCHANGED <<equipmentTypes, rowsRead, requestVars, cacheVars, serviceVars, lastMutation,
                   mounted, value, pendingInitialize>>

\* reset cascading dropdowns when parent changes
handleDomainChange(domain) ==
    /\ Settled
    /\ domain \in ItemNames(domains)
    /\ SetSlots([domain |-> domain, type |-> "", category |-> "", subcategory |-> ""])
    /\ UNCHANGED <<equipmentTypes, rowsRead, requestVars, cacheVars, serviceVars, lastMutation,
                   mounted, value, pendingInitialize>>

\* (mutant) the type handler leaves the category in place
handleTypeChangeKeepCategory(type) ==
    /\ Settled
    /\ Truthy(selectedDomain)
    /\ type \in ItemNames(types)
    /\ SetSlots([domain |-> selectedDomain, type |-> type,
                 category |-> selectedCategory, subcategory |-> ""])
    /\ UNCHANGED <<equipmentTypes, rowsRead, requestVars, cacheVars, serviceVars, lastMutation,
                   mounted, value, pendingInitialize>>

handleTypeChange(type) ==
    /\ Settled
    /\ Truthy(selectedDomain)
    /\ type \in ItemNames(types)
    /\ SetSlots([domain |-> selectedDomain, type |-> type,
                 category |-> "", subcategory |-> ""])
    /\ UNCHANGED <<equipmentTypes, rowsRead, requestVars, cacheVars, serviceVars, lastMutation,
                   mounted, value, pendingInitialize>>

handleCategoryChange(category) ==
    /\ Settled
    /\ Truthy(selectedType)
    /\ category \in ItemNames(categories)
    /\ SetSlots([domain |-> selectedDomain, type |-> selectedType,
                 category |-> category, subcategory |-> ""])
    /\ UNCHANGED <<equipmentTypes, rowsRead, requestVars, cacheVars, serviceVars, lastMutation,
                   mounted, value, pendingInitialize>>

\* (mutant) picking a subcategory resets the category slot
setSelectedSubcategoryResetCategory(subcategory) ==
    /\ Settled
    /\ Truthy(selectedCategory)
    /\ subcategory \in ItemNames(subcategories)
    /\ SetSlots([domain |-> selectedDomain, type |-> selectedType,
                 category |-> "", subcategory |-> subcategory])
    /\ UNCHANGED <<equipmentTypes, rowsRead, requestVars, cacheVars, serviceVars, lastMutation,
                   mounted, value, pendingInitialize>>

\* the subcategory Select: onValueChange={setSelectedSubcategory}
setSelectedSubcategory(subcategory) ==
    /\ Settled
    /\ Truthy(selectedCategory)
    /\ subcategory \in ItemNames(subcategories)
    /\ SetSlots([domain |-> selectedDomain, type |-> selectedType,
                 category |-> selectedCategory, subcategory |-> subcategory])
    /\ UNCHANGED <<equipmentTypes, rowsRead, requestVars, cacheVars, serviceVars, lastMutation,
                   mounted, value, pendingInitialize>>

\* UpdateEquipmentDialog: setFormData({..., equipmentTypeId}) for another equipment
SetFormData(equipmentTypeId) ==
    /\ Settled
    /\ equipmentTypeId \in 0..(Len(equipmentTypes) + 1)
    /\ equipmentTypeId # value
    /\ value' = equipmentTypeId
    /\ pendingInitialize' = TRUE
    /\ UNCHANGED <<equipmentTypes, rowsRead, requestVars, cacheVars, serviceVars, lastMutation,
                   mounted, slotVars, pendingUpdateParent>>

NextCascade ==
    \/ \E row \in CSVRows : ImportRow(row)
    \/ \E v \in 0..(MaxImported + 1) : Mount(v)
    \/ FlushEffects
    \/ \E domain \in Names : handleDomainChange(domain)
    \/ \E type \in Names : handleTypeChange(type)
    \/ \E category \in Names : handleCategoryChange(category)
    \/ \E subcategory \in Names : setSelectedSubcategory(subcategory)
    \/ \E equipmentTypeId \in 0..(MaxImported + 1) : SetFormData(equipmentTypeId)

SpecCascade == Init /\ [][NextCascade]_vars

\* ==== the component on a table filled by runs of the import and by the
\* ==== createEquipmentType mutation (SpecCascadeAny) =========================
\* a run of the import before the component is mounted
SeedTable(rows) ==
    /\ ~mounted
    /\ Len(equipmentTypes) < MaxNodes
    /\ importEquipmentTypes(rows)

\* the mutation with a level and a parentId, before the component is mounted
CreateUnderParent(input) ==
    /\ ~mounted
    /\ rowsRead > 0
    /\ input.level # 0 /\ input.parentId # 0
    /\ createEquipmentType(input)

NextCascadeAny ==
    \/ \E rows \in CSVFiles : SeedTable(rows)
    \/ \E input \in CreateEquipmentTypeInputs : CreateUnderParent(input)
    \/ \E v \in 0..(MaxImported + 1) : Mount(v)
    \/ FlushEffects
    \/ \E domain \in Names : handleDomainChange(domain)
    \/ \E type \in Names : handleTypeChange(type)
    \/ \E category \in Names : handleCategoryChange(category)
    \/ \E subcategory \in Names : setSelectedSubcategory(subcategory)
    \/ \E equipmentTypeId \in 0..(MaxImported + 1) : SetFormData(equipmentTypeId)

SpecCascadeAny == Init /\ [][NextCascadeAny]_vars

\* ==== properties of the cascade component (SpecCascade) ====================
EmptySlots == [domain |-> "", type |-> "", category |-> "", subcategory |-> ""]

\* C7: selecting a value at level k clears every slot deeper than k, from
\* every reachable state.
C7_SelectClearsDeeper ==
    [][ /\ (\E domain \in Names : handleDomainChange(domain))
            => (selectedType' = "" /\ selectedCategory' = ""
                /\ selectedSubcategory' = "")
        /\ (\E type \in Names : handleTypeChange(type))
            => (selectedCategory' = "" /\ selectedSubcategory' = "")
        /\ (\E category \in Names : handleCategoryChange(category))
            => selectedSubcategory' = ""
      ]_vars

\* a domain was just selected while the parent still holds the id of a
\* subcategory under another domain
C7_Witness ==
    /\ mounted /\ pendingUpdateParent /\ ~pendingInitialize
    /\ ById(equipmentTypes, value).level = 4
    /\ selectedDomain # ""
    /\ selectedDomain # NodePath(equipmentTypes, ById(equipmentTypes, value)).domain
    /\ selectedType = "" /\ selectedCategory = "" /\ selectedSubcategory = ""

\* C8: the initialize effect, for a value naming a node of the tree, sets all
\* four slots in one step to the path getEquipmentTypeHierarchy gives for it
\* (deeper levels empty).
C8_HydrateSetsPathAtOnce ==
    [][ (/\ FlushEffects /\ pendingInitialize
         /\ \E i \in DOMAIN equipmentTypes : equipmentTypes[i].id = value)
        => LET hierarchy == getEquipmentTypeHierarchy(equipmentTypes,
                                                      ById(equipmentTypes, value))
           IN  /\ selectedDomain' = OrEmpty(hierarchy.domain)
               /\ selectedType' = OrEmpty(hierarchy.type)
               /\ selectedCategory' = OrEmpty(hierarchy.category)
               /\ selectedSubcategory' = OrEmpty(hierarchy.subcategory)
      ]_vars

\* the effect has just replaced the slots by the path of a subcategory
C8_Witness ==
    /\ mounted /\ pendingUpdateParent /\ ~pendingInitialize
    /\ ById(equipmentTypes, value).level = 4
    /\ selectedSubcategory # ""
    /\ Slots = NodePath(equipmentTypes, ById(equipmentTypes, value))

\* C9: after every slot change the id given to the parent is the one
\* findEquipmentTypeIdFromHierarchy returns for the selected slots (the node
\* whose full ancestor path is the selection).
C9_ExposedIdIsResolvedPath ==
    [][ (FlushEffects /\ pendingUpdateParent /\ Slots # EmptySlots)
        => value' = findEquipmentTypeIdFromHierarchy(Slots, equipmentTypes)
      ]_vars

\* C20: selecting a value at level k leaves every slot shallower than k
\* unchanged, and selecting a subcategory changes the subcategory slot only.
C20_SelectKeepsShallower ==
    [][ /\ (\E type \in Names : handleTypeChange(type))
            => selectedDomain' = selectedDomain
        /\ (\E category \in Names : handleCategoryChange(category))
            => (selectedDomain' = selectedDomain /\ selectedType' = selectedType)
        /\ (\E subcategory \in Names : setSelectedSubcategory(subcategory))
            => (/\ selectedDomain' = selectedDomain
                /\ selectedType' = selectedType
                /\ selectedCategory' = selectedCategory)
      ]_vars

\* a subcategory was just picked by hand under a selected domain, type and
\* category (the slots are not the path of the parent's value)
C20_Witness ==
    /\ mounted /\ pendingUpdateParent /\ ~pendingInitialize
    /\ selectedDomain # "" /\ selectedType # ""
    /\ selectedCategory # "" /\ selectedSubcategory # ""
    /\ Slots # NodePath(equipmentTypes, ById(equipmentTypes, value))
    /\ selectedSubcategory \in ItemNames(subcategories)

\* the slots as a path record: an empty slot is an absent field
SlotPath ==
    [domain      |-> IF selectedDomain = "" THEN undefined ELSE selectedDomain,
     type        |-> IF selectedType = "" THEN undefined ELSE selectedType,
     category    |-> IF selectedCategory = "" THEN undefined ELSE selectedCategory,
     subcategory |-> IF selectedSubcategory = "" THEN undefined ELSE selectedSubcategory]

\* the nodes of level lv whose ancestors, from the domain down to the node
\* itself, are named by the slots of levels 1..lv
SelectedAt(lv) ==
    {i \in DOMAIN equipmentTypes :
        /\ equipmentTypes[i].level = lv
        /\ \A k \in 1..lv :
              AncestorAt(equipmentTypes, equipmentTypes[i], k).name = FieldAt(SlotPath, k)}

Ids(items) == {items[i].id : i \in DOMAIN items}

\* the slots hold the path of the node the parent's value names
HydratedFromValue ==
    /\ value \in 1..Len(equipmentTypes)
    /\ SlotPath = NodePath(equipmentTypes, ById(equipmentTypes, value))

\* the node selected at level lv: the ancestor of the node the parent holds
\* when the slots show that node's path, and otherwise the nodes the slots
\* name
SelectedNodes(lv) ==
    IF HydratedFromValue /\ ById(equipmentTypes, value).level >= lv
    THEN {AncestorAt(equipmentTypes, ById(equipmentTypes, value), lv).id}
    ELSE SelectedAt(lv)

\* the nodes of level lv + 1 whose parent is the node selected at level lv
ChildrenOfSelectedNode(lv) ==
    {i \in DOMAIN equipmentTypes :
        /\ equipmentTypes[i].level = lv + 1
        /\ equipmentTypes[i].parentId \in SelectedNodes(lv)}

\* C21: on a table that satisfies the data model's invariant, and with the
\* effects of the last event done, the options offered at each level are
\* exactly the children of the node selected at the level above: all
\* level-1 nodes for the domain, and for a deeper level the nodes whose
\* parent is the selected node one level up (whenever the selection names
\* one node); they are empty when the slot above is empty.
C21_OptionsAreChildrenOfSelected ==
    (Settled /\ WellFormedTree(equipmentTypes)) =>
        /\ Ids(domains) = {i \in DOMAIN equipmentTypes : equipmentTypes[i].level = 1}
        /\ Cardinality(SelectedNodes(1)) <= 1 => Ids(types) = ChildrenOfSelectedNode(1)
        /\ Cardinality(SelectedNodes(2)) <= 1 => Ids(categories) = ChildrenOfSelectedNode(2)
        /\ Cardinality(SelectedNodes(3)) <= 1 => Ids(subcategories) = ChildrenOfSelectedNode(3)
        /\ selectedDomain = "" => Len(types) = 0
        /\ selectedType = "" => Len(categories) = 0
        /\ selectedCategory = "" => Len(subcategories) = 0

\* C26: in every state select and hydrate reach over a tree the importer
\* built, the selection is prefix-closed: a non-empty slot at level k has
\* every shallower slot non-empty, and each non-empty slot below the domain
\* names a child of the node selected one level above (a non-empty domain
\* slot names a domain).
C26_SelectionPrefixClosed ==
    mounted =>
        /\ \A lv \in 2..4 :
              FieldAt(SlotPath, lv) # undefined => FieldAt(SlotPath, lv - 1) # undefined
        /\ \A lv \in 1..4 :
              FieldAt(SlotPath, lv) # undefined => SelectedAt(lv) # {}
        /\ \A lv \in 2..4 :
              FieldAt(SlotPath, lv) # undefined
              => \A i \in SelectedAt(lv) :
                     equipmentTypes[i].parentId \in SelectedAt(lv - 1)

\* a type was just picked by hand while the slots held a category under
\* another type of the same domain: the category slot is empty again
C26_Witness ==
    /\ mounted /\ pendingUpdateParent /\ ~pendingInitialize
    /\ ById(equipmentTypes, value).level = 3
    /\ selectedDomain = NodePath(equipmentTypes, ById(equipmentTypes, value)).domain
    /\ selectedType # ""
    /\ selectedType # NodePath(equipmentTypes, ById(equipmentTypes, value)).type
    /\ selectedCategory = ""

\* C27: hydrating with the id of a node never replaces that id: when the
\* slots hold the path of the parent's value and the update-parent effect
\* recomputes the id from them, the parent's value stays what it was.
C27_HydrateKeepsId ==
    [][ (FlushEffects /\ pendingUpdateParent /\ HydratedFromValue)
        => value' = value
      ]_vars

\* the parent's value is empty or names no node of the tree
UnknownValue == value \notin 1..Len(equipmentTypes)

\* C29: when the initialize effect runs on an empty value or on an id that
\* matches no node, the four slots and the parent's value stay as they
\* are: no slot is cleared and nothing is reported.
C29_UnknownValueLeavesSelection ==
    [][ (FlushEffects /\ pendingInitialize /\ UnknownValue)
        => (/\ selectedDomain' = selectedDomain
            /\ selectedType' = selectedType
            /\ selectedCategory' = selectedCategory
            /\ selectedSubcategory' = selectedSubcategory
            /\ value' = value)
      ]_vars

\* the effect has run on a value that names no node while a type was
\* selected: the selection is still shown
C29_Witness ==
    /\ Settled
    /\ UnknownValue
    /\ selectedDomain # "" /\ selectedType # ""

\* the component after a render: the parent's value, the slots and the
\* effects that render scheduled
Render ==
    [value |-> value, slots |-> Slots,
     updateParent |-> pendingUpdateParent, initialize |-> pendingInitialize]

\* the render that follows the effects of render r
Commit(r, ts) ==
    LET v == IF r.updateParent THEN UpdateParent(r.value, ts, r.slots) ELSE r.value
        s == IF r.initialize THEN InitializeFromValue(r.value, ts, r.slots)
             ELSE r.slots
    IN  [value |-> v, slots |-> s,
         updateParent |-> (s # r.slots), initialize |-> (v # r.value)]

RECURSIVE Commits(_, _, _)
Commits(r, ts, k) == IF k = 0 THEN r ELSE Commits(Commit(r, ts), ts, k - 1)

\* no effect is scheduled: nothing changes until the next event
AtRest(r) == ~r.updateParent /\ ~r.initialize

\* the chain of effects that starts at render r comes back to r with an
\* effect still scheduled: it repeats for ever
Returns(r, ts) == ~AtRest(r) /\ \E k \in 1..MaxCommits : Commits(r, ts, k) = r

\* C30: the feedback loop between the component and its parent settles,
\* for every table: each FlushEffects step is one round of the chain 'slots
\* change, id reported, value changes, slots re-hydrated', and no round
\* leads back to a render the chain has left with an effect still
\* scheduled, so the chain does not go round between two ids.
C30_FeedbackSettles ==
    /\ [](mounted => ~Returns(Render, equipmentTypes))
    /\ [][FlushEffects => Render' = Commit(Render, equipmentTypes)]_vars

\* ==== AIDetectionService: the hierarchy summary and its cache ==============
\* A JS object used as a map is a sequence of entries in insertion order.
IndexOf(entries, name) ==
    IF \E i \in DOMAIN entries : entries[i].name = name
    THEN CHOOSE i \in DOMAIN entries : entries[i].name = name
    ELSE 0

\* obj[name] = entry: a new key goes last, an existing key keeps its place
Put(entries, entry) ==
    IF IndexOf(entries, entry.name) = 0
    THEN Append(entries, entry)
    ELSE [entries EXCEPT ![IndexOf(entries, entry.name)] = entry]

\* if (!obj[name]) obj[name] = entry
Ensure(entries, entry) ==
    IF IndexOf(entries, entry.name) = 0 THEN Append(entries, entry) ELSE entries

Get(entries, name) == entries[IndexOf(entries, name)]

NewDomain(name) == [name |-> name, count |-> 0, types |-> <<>>]
NewType(name) == [name |-> name, count |-> 0, categories |-> <<>>]
NewCategory(name) == [name |-> name, count |-> 0]

\* the body of equipmentTypes.forEach(type => ...) on the summary so far
SummaryStep(summary, ts, t) ==
    LET p1 == Parent(ts, t)
        p2 == Parent(ts, p1)
        p3 == Parent(ts, p2)
    IN
    IF t.level = 1 THEN
        Put(summary, NewDomain(t.name))
    ELSE IF t.level = 2 /\ p1 # NoNode THEN
        LET s1 == Ensure(summary, NewDomain(p1.name))
            d  == Get(s1, p1.name)
        IN  Put(s1, [d EXCEPT !.types = Put(d.types, NewType(t.name)),
                              !.count = d.count + 1])
    ELSE IF t.level = 3 /\ p2 # NoNode THEN
        LET s1  == Ensure(summary, NewDomain(p2.name))
            d   == Get(s1, p2.name)
            ts1 == Ensure(d.types, NewType(p1.name))
            ty  == Get(ts1, p1.name)
            ty2 == [ty EXCEPT !.categories = Put(ty.categories, NewCategory(t.name)),
                              !.count = ty.count + 1]
        IN  Put(s1, [d EXCEPT !.types = Put(ts1, ty2), !.count = d.count + 1])
    ELSE IF t.level = 4 /\ p3 # NoNode THEN
        LET s1  == Ensure(summary, NewDomain(p3.name))
            d   == Get(s1, p3.name)
            ts1 == Ensure(d.types, NewType(p2.name))
            ty  == Get(ts1, p2.name)
            cs1 == Ensure(ty.categories, NewCategory(p1.name))
            c   == Get(cs1, p1.name)
            ty2 == [ty EXCEPT !.categories = Put(cs1, [c EXCEPT !.count = c.count + 1]),
                              !.count = ty.count + 1]
        IN  Put(s1, [d EXCEPT !.types = Put(ts1, ty2), !.count = d.count + 1])
    ELSE summary

RECURSIVE SummaryOf(_, _)
SummaryOf(ts, k) ==
    IF k = 0 THEN <<>> ELSE SummaryStep(SummaryOf(ts, k - 1), ts, ts[k])

\* Convert to readable format: one line per domain, type and category
RECURSIVE CategoryLines(_, _)
CategoryLines(cs, k) ==
    IF k > Len(cs) THEN <<>>
    ELSE <<<<2, cs[k].name, cs[k].count>>>> \o CategoryLines(cs, k + 1)

RECURSIVE TypeLines(_, _)
TypeLines(tys, k) ==
    IF k > Len(tys) THEN <<>>
    ELSE <<<<1, tys[k].name, tys[k].count>>>>
         \o CategoryLines(tys[k].categories, 1) \o TypeLines(tys, k + 1)

RECURSIVE DomainLines(_, _)
DomainLines(ds, k) ==
    IF k > Len(ds) THEN <<>>
    ELSE <<<<0, ds[k].name, ds[k].count>>>>
         \o TypeLines(ds[k].types, 1) \o DomainLines(ds, k + 1)

createHierarchySummary(ts) == DomainLines(SummaryOf(ts, Len(ts)), 1)

\* a string is truthy unless it is empty; null is falsy
TruthyText(text) == text # null /\ text # <<>>

\* Check if cache is still valid
CacheValid ==
    TruthyText(cachedHierarchySummary) /\ (now - lastCacheUpdate) < CACHE_DURATION

\* (mutant) the rebuild stores the digest but leaves the timestamp alone
getHierarchySummaryKeepStamp(ts) ==
    IF CacheValid
    THEN /\ hierarchySummary' = cachedHierarchySummary
         /\ UNCHANGED <<cachedHierarchySummary, lastCacheUpdate>>
    ELSE /\ hierarchySummary' = createHierarchySummary(ts)
         /\ cachedHierarchySummary' = hierarchySummary'
         /\ UNCHANGED lastCacheUpdate

\* getHierarchySummary(equipmentTypes): what it returns and what it does to
\* the cache fields
getHierarchySummary(ts) ==
    IF CacheValid
    THEN /\ hierarchySummary' = cachedHierarchySummary
         /\ UNCHANGED <<cachedHierarchySummary, lastCacheUpdate>>
    ELSE /\ hierarchySummary' = createHierarchySummary(ts)
         /\ cachedHierarchySummary' = hierarchySummary'
         /\ lastCacheUpdate' = now

\* getHierarchySummary(equipmentTypes) on the tree as findAll just read it
GetHierarchySummary ==
    /\ getHierarchySummary(equipmentTypes)
    /\ UNCHANGED <<equipmentTypes, rowsRead, requestVars, cascadeVars, now,
                   serviceVars, lastMutation>>

\* time passes, half a TTL at a time
TickMs == CACHE_DURATION \div 2
Tick ==
    /\ now < CACHE_DURATION + MaxTicks * TickMs
    /\ now' = now + TickMs
    /\ UNCHANGED <<equipmentTypes, rowsRead, requestVars, cascadeVars,
                   cachedHierarchySummary, lastCacheUpdate, hierarchySummary,
                   serviceVars, lastMutation>>

\* a write to the tree (it does not touch the cache)
AddEquipmentType(name, parentId) ==
    /\ Len(equipmentTypes) < MaxSummarized
    /\ CreateEquipmentType(name, parentId)

NextCache ==
    \/ \E name \in Names, parentId \in 0..MaxSummarized : AddEquipmentType(name, parentId)
    \/ GetHierarchySummary
    \/ Tick

SpecCache == Init /\ [][NextCache]_vars

\* ==== properties of the summary cache (SpecCache) ==========================
\* C10: a request within the TTL of the last rebuild returns the cached digest
\* and leaves the cached digest and its timestamp unchanged, whatever the
\* digest (an empty one included) and whatever tree the request is given.
C10_WithinTTLCacheUntouched ==
    [][ (/\ GetHierarchySummary
         /\ cachedHierarchySummary # null
         /\ (now - lastCacheUpdate) < CACHE_DURATION)
        => (/\ hierarchySummary' = cachedHierarchySummary
            /\ cachedHierarchySummary' = cachedHierarchySummary
            /\ lastCacheUpdate' = lastCacheUpdate)
      ]_vars

\* C11: a request made when nothing is cached yet, or when the TTL has elapsed
\* since the last rebuild, returns the digest of the tree it was given, stores
\* it as the cached digest and sets the timestamp to the time of the request.
C11_ExpiredOrEmptyRebuilds ==
    [][ (/\ GetHierarchySummary
         /\ \/ cachedHierarchySummary = null
            \/ (now - lastCacheUpdate) >= CACHE_DURATION)
        => (/\ hierarchySummary' = createHierarchySummary(equipmentTypes)
            /\ cachedHierarchySummary' = hierarchySummary'
            /\ lastCacheUpdate' = now)
      ]_vars

\* a request made at least one TTL after the start has just left the digest
\* of the full tree in the cache, stamped with the time of the request
C11_Witness ==
    /\ Len(equipmentTypes) = MaxSummarized
    /\ hierarchySummary = createHierarchySummary(equipmentTypes)
    /\ hierarchySummary # <<>>
    /\ cachedHierarchySummary = hierarchySummary
    /\ lastCacheUpdate = now
    /\ now >= 2 * CACHE_DURATION

\* the direct children of node t
Children(ts, t) == {i \in DOMAIN ts : ts[i].parentId = t.id}

\* the digest has a line of the given indent for t with t's number of children
HasLine(digest, indent, ts, t) ==
    \E k \in DOMAIN digest :
        digest[k] = <<indent, t.name, Cardinality(Children(ts, t))>>

\* C19: the digest built by createHierarchySummary reports for every domain
\* node the number of its type children, for every type node the number of
\* its category children and for every category node the number of its
\* subcategory children.
C19_DigestCountsChildren ==
    [][ (GetHierarchySummary /\ ~CacheValid)
        => \A i \in DOMAIN equipmentTypes :
               equipmentTypes[i].level \in 1..3
               => HasLine(hierarchySummary', equipmentTypes[i].level - 1,
                          equipmentTypes, equipmentTypes[i])
      ]_vars

\* the lists with the elements of ts in any order
Permuted(ts) ==
    {[i \in 1..Len(ts) |-> ts[p[i]]] :
        p \in {f \in [1..Len(ts) -> 1..Len(ts)] :
                  \A i, j \in 1..Len(ts) : f[i] = f[j] => i = j}}

\* the entries of a summary with their counts: domain, domain > type and
\* domain > type > category
Entries(summary) ==
    {<<summary[d].name, summary[d].count>> : d \in DOMAIN summary}
    \cup UNION {{<<summary[d].name, summary[d].types[t].name,
                    summary[d].types[t].count>> :
                     t \in DOMAIN summary[d].types} : d \in DOMAIN summary}
    \cup UNION {UNION {{<<summary[d].name, summary[d].types[t].name,
                           summary[d].types[t].categories[c].name,
                           summary[d].types[t].categories[c].count>> :
                            c \in DOMAIN summary[d].types[t].categories} :
                        t \in DOMAIN summary[d].types} : d \in DOMAIN summary}

\* C28: the digest depends on the set of nodes only: every order of the
\* node list gives the same domain, type and category entries with the same
\* counts (a parent listed after its children keeps what they recorded).
C28_DigestOrderIndependent ==
    \A ts \in Permuted(equipmentTypes) :
        Entries(SummaryOf(ts, Len(ts)))
          = Entries(SummaryOf(equipmentTypes, Len(equipmentTypes)))

\* ==== AIDetectionService: keywords and relevant types ======================
\* the texts of at most n characters
Texts(n) == UNION {[1..k -> Chars] : k \in 0..n}
\* the names of at most n characters
TypeNames(n) == UNION {[1..k -> NameChars] : k \in 1..n}

toLowerCase(s) == [i \in 1..Len(s) |-> IF s[i] = "V" THEN "v" ELSE s[i]]

\* String.prototype.includes
includes(s, k) ==
    \E i \in 0..(Len(s) - Len(k)) : SubSeq(s, i + 1, i + Len(k)) = k

\* description || ''
OrEmptyText(s) == IF s = NoText THEN <<>> ELSE s

\* the categorized keywords, cut down to two categories that share a word
keywordCategories ==
    << [category |-> <<"x", "x">>, words |-> << <<"v", "v">> >>],
       [category |-> <<"x", "v">>, words |-> << <<"v", "v">>, <<"v", "x">> >>] >>

\* Set.prototype.add on a Set kept in insertion order
SetAdd(set, k) == IF \E i \in DOMAIN set : set[i] = k THEN set ELSE Append(set, k)

\* words.forEach(keyword => ...) from the j-th word on
RECURSIVE WordsFrom(_, _, _, _, _)
WordsFrom(text, set, category, words, j) ==
    IF j > Len(words) THEN set
    ELSE WordsFrom(text,
                   IF includes(text, words[j])
                   THEN SetAdd(SetAdd(set, category), words[j]) ELSE set,
                   category, words, j + 1)

\* Object.entries(keywordCategories).forEach(...) from the c-th category on
RECURSIVE CategoriesFrom(_, _, _)
CategoriesFrom(text, set, c) ==
    IF c > Len(keywordCategories) THEN set
    ELSE CategoriesFrom(text,
                        WordsFrom(text, set, keywordCategories[c].category,
                                  keywordCategories[c].words, 1),
                        c + 1)

extractKeywords(name, brand, model, description) ==
    LET text == toLowerCase(name \o <<" ">> \o brand \o <<" ">> \o model
                            \o <<" ">> \o OrEmptyText(description))
    IN  CategoriesFrom(text, <<>>, 1)

\* (mutant) the type name is compared as it is written
getRelevantEquipmentTypesCaseSensitive(ts, kws) ==
    IF Len(kws) = 0 THEN <<>>
    ELSE SelectSeq(ts, LAMBDA type :
             LET typeText == type.name
             IN  \E k \in DOMAIN kws : includes(typeText, kws[k]))

getRelevantEquipmentTypes(ts, kws) ==
    IF Len(kws) = 0 THEN <<>>
    ELSE SelectSeq(ts, LAMBDA type :
             LET typeText == toLowerCase(type.name)
             IN  \E k \in DOMAIN kws : includes(typeText, kws[k]))

\* an equipment type with a name made of characters is created
AddNamedType(name, parentId) ==
    /\ Len(equipmentTypes) < MaxRelevant
    /\ keywords = NotExtracted
    /\ CreateEquipmentType(name, parentId)

\* createOptimizedPrompt: extractKeywords, then getRelevantEquipmentTypes on
\* the types findAll returned
GetRelevantEquipmentTypes(name, brand, model, description) ==
    /\ keywords = NotExtracted
    /\ keywords' = extractKeywords(name, brand, model, description)
    /\ relevantTypes' = getRelevantEquipmentTypes(equipmentTypes, keywords')
    /\ UNCHANGED <<equipmentTypes, rowsRead, requestVars, cascadeVars, cacheVars,
                   detectVars, lastMutation>>

NextKeywords ==
    \/ \E name \in TypeNames(MaxNameLen), parentId \in 0..1 :
           AddNamedType(name, parentId)
    \/ \E name \in Texts(MaxNameLen), brand \in {<<>>, <<"v">>},
          model \in {<<>>}, description \in {NoText, <<"v", "x">>} :
           GetRelevantEquipmentTypes(name, brand, model, description)

SpecKeywords == Init /\ [][NextKeywords]_vars

\* ==== properties of the keyword filter (SpecKeywords) =======================
Extracted == keywords # NotExtracted

\* the lower-cased name of t contains keyword kw, character by character
NameContains(t, kw) ==
    \E i \in 0..(Len(t.name) - Len(kw)) :
        \A j \in 1..Len(kw) :
            (IF t.name[i + j] = "V" THEN "v" ELSE t.name[i + j]) = kw[j]

\* C12: getRelevantEquipmentTypes returns exactly the nodes of its input
\* whose lower-cased name contains one of the keywords, and nothing when
\* extractKeywords found no keyword.
C12_RelevantAreKeywordMatches ==
    Extracted =>
        /\ Range(relevantTypes)
             = {t \in Range(equipmentTypes) :
                   \E k \in DOMAIN keywords : NameContains(t, keywords[k])}
        /\ Len(relevantTypes) = Cardinality(Range(relevantTypes))
        /\ keywords = <<>> => relevantTypes = <<>>

\* a node written in upper case was kept for a keyword and another node of
\* the tree was left out
C12_Witness ==
    /\ Extracted
    /\ keywords # <<>>
    /\ \E i \in DOMAIN relevantTypes : relevantTypes[i].name = <<"V", "V">>
    /\ Len(relevantTypes) < Len(equipmentTypes)

\* ==== AIDetectionService.detectEquipmentType ===============================
\* A parsed classifier answer: the four names, confidence (in percent,
\* NoNumber when absent) and reasoning.
NoNumber == -1
Detections ==
    [domain : Fields, type : Fields, category : Fields, subcategory : Fields,
     confidence : {NoNumber, 95}, reasoning : {undefined, "because"}]
\* JSON.parse('{}')
EmptyObject ==
    [domain |-> undefined, type |-> undefined, category |-> undefined,
     subcategory |-> undefined, confidence |-> NoNumber, reasoning |-> undefined]

\* The text of an answer is a sequence of tokens: an opening brace, a closing
\* brace, a well-formed list of members ("m") or any other text ("x").
Tokens == {"{", "}", "m", "x"}
ResponseTexts == UNION {[1..k -> Tokens] : k \in 0..MaxResponse}

NoMatch == <<>>

\* (mutant) the match stops at the first "}" after the first "{"
MatchLazy(text) ==
    LET opens  == {i \in DOMAIN text : text[i] = "{"}
        closes == {i \in DOMAIN text : text[i] = "}"}
    IN  IF opens = {} THEN NoMatch
        ELSE LET first == CHOOSE i \in opens : \A j \in opens : i <= j
                 after == {i \in closes : i > first}
             IN  IF after = {} THEN NoMatch
                 ELSE SubSeq(text, first,
                             CHOOSE i \in after : \A j \in after : i <= j)

\* response.match(/\{[\s\S]*\}/): from the first "{" to the last "}"
Match(text) ==
    LET opens  == {i \in DOMAIN text : text[i] = "{"}
        closes == {i \in DOMAIN text : text[i] = "}"}
    IN  IF opens = {} THEN NoMatch
        ELSE LET first == CHOOSE i \in opens : \A j \in opens : i <= j
                 after == {i \in closes : i > first}
             IN  IF after = {} THEN NoMatch
                 ELSE SubSeq(text, first,
                             CHOOSE i \in after : \A j \in after : j <= i)

\* JSON.parse accepts the text of one object: {} or {members}
WellFormed(json) == json = <<"{", "}">> \/ json = <<"{", "m", "}">>

\* the errors thrown on the way
FindAllError == "findAll rejected"
FetchError == "fetch failed"
APIError == "OpenAI API error"
TypeError == "TypeError"
ParseError == "Invalid AI response format"
Thrown(error) == [error |-> error]

\* parseAIResponse: the parsed object, or the error it throws
parseAIResponse(response) ==
    LET jsonMatch == Match(response.text)
    IN  IF jsonMatch = NoMatch \/ ~WellFormed(jsonMatch) THEN Thrown(ParseError)
        ELSE IF jsonMatch = <<"{", "m", "}">> THEN response.members
        ELSE EmptyObject

\* (mutant) the confidence is given up when a supplied field was dropped
validatedResultLowered(d, ts) ==
    LET v == validateDetection(d, ts)
    IN  [confidence  |-> IF d.confidence = NoNumber
                            \/ v # [domain |-> d.domain, type |-> d.type,
                                    category |-> d.category,
                                    subcategory |-> d.subcategory]
                         THEN 0 ELSE d.confidence,
         reasoning   |-> IF Truthy(d.reasoning) THEN d.reasoning
                         ELSE "No reasoning provided",
         domain      |-> v.domain,
         type        |-> v.type,
         category    |-> v.category,
         subcategory |-> v.subcategory]

\* validateDetection with the confidence and reasoning it copies:
\* detection.confidence || 0, detection.reasoning || 'No reasoning provided'
validatedResult(d, ts) ==
    LET v == validateDetection(d, ts)
    IN  [confidence  |-> IF d.confidence = NoNumber THEN 0 ELSE d.confidence,
         reasoning   |-> IF Truthy(d.reasoning) THEN d.reasoning
                         ELSE "No reasoning provided",
         domain      |-> v.domain,
         type        |-> v.type,
         category    |-> v.category,
         subcategory |-> v.subcategory]

\* (mutant) the catch block throws the error again
CatchRethrow(error) == Thrown(error)

\* catch (error) { console.error(...); return {confidence: 0, reasoning} }
Catch(error) ==
    [confidence  |-> 0,
     reasoning   |-> "AI detection service unavailable",
     domain      |-> undefined,
     type        |-> undefined,
     category    |-> undefined,
     subcategory |-> undefined]

\* what the classifier call can come to: fetch rejects, the status is not
\* OK, the body has no choices[0].message, or the body carries a text.  The
\* members matter only to an answer whose JSON is parsed.
Failures == {[kind |-> "rejected"], [kind |-> "notOk"], [kind |-> "noChoices"]}
Answers ==
    {[kind |-> "content", text |-> text, members |-> EmptyObject] :
        text \in ResponseTexts}
    \cup
    {[kind |-> "content", text |-> text, members |-> d] :
        text \in {t \in ResponseTexts : Match(t) = <<"{", "m", "}">>},
        d \in Detections}
Outcomes == Failures \cup Answers

\* detectEquipmentType up to the end of  await findAll()
FindAll(r, ok) ==
    /\ pc[r] = "idle"
    /\ IF ok
       THEN /\ snapshot' = [snapshot EXCEPT ![r] = equipmentTypes]
            /\ pc' = [pc EXCEPT ![r] = "loaded"]
            /\ UNCHANGED <<caught, validatedDetection>>
       ELSE /\ caught' = FindAllError
            /\ validatedDetection' = Catch(FindAllError)
            /\ pc' = [pc EXCEPT ![r] = "returned"]
            /\ UNCHANGED snapshot
    /\ UNCHANGED <<equipmentTypes, rowsRead, requestVars, cascadeVars, cacheVars,
                   promptVars, aiResponse, lastMutation>>

\* createOptimizedPrompt on the types findAll returned, then the fetch is sent
CreateOptimizedPrompt(r) ==
    /\ pc[r] = "loaded"
    /\ getHierarchySummary(snapshot[r])
    /\ pc' = [pc EXCEPT ![r] = "called"]
    /\ UNCHANGED <<equipmentTypes, rowsRead, requestVars, cascadeVars, now,
                   promptVars, snapshot, aiResponse, caught, validatedDetection,
                   lastMutation>>

\* (mutant) the answer is validated against the table as it is when the
\* classifier answers, not against the types this request loaded
CallChatGPTOnTable(r, outcome) ==
    /\ pc[r] = "called"
    /\ aiResponse' = outcome
    /\ LET error ==
               IF outcome.kind = "rejected" THEN FetchError
               ELSE IF outcome.kind = "notOk" THEN APIError
               ELSE IF outcome.kind = "noChoices" THEN TypeError
               ELSE IF parseAIResponse(outcome) = Thrown(ParseError) THEN ParseError
               ELSE NoError
       IN  /\ caught' = error
           /\ validatedDetection' =
                  IF error # NoError THEN Catch(error)
                  ELSE validatedResult(parseAIResponse(outcome), equipmentTypes)
    /\ pc' = [pc EXCEPT ![r] = "returned"]
    /\ UNCHANGED <<equipmentTypes, rowsRead, requestVars, cascadeVars, cacheVars,
                   promptVars, snapshot, lastMutation>>

\* the rest of detectEquipmentType: callChatGPT ends, parseAIResponse,
\* validateDetection, return (or the catch block)
CallChatGPT(r, outcome) ==
    /\ pc[r] = "called"
    /\ aiResponse' = outcome
    /\ LET error ==
               IF outcome.kind = "rejected" THEN FetchError
               ELSE IF outcome.kind = "notOk" THEN APIError
               ELSE IF outcome.kind = "noChoices" THEN TypeError
               ELSE IF parseAIResponse(outcome) = Thrown(ParseError) THEN ParseError
               ELSE NoError
       IN  /\ caught' = error
           /\ validatedDetection' =
                  IF error # NoError THEN Catch(error)
                  ELSE validatedResult(parseAIResponse(outcome), snapshot[r])
    /\ pc' = [pc EXCEPT ![r] = "returned"]
    /\ UNCHANGED <<equipmentTypes, rowsRead, requestVars, cascadeVars, cacheVars,
                   promptVars, snapshot, lastMutation>>

\* the table is filled before the request is served
AddClassifiedType(name, parentId) ==
    /\ Len(equipmentTypes) < MaxClassified
    /\ \A r \in Requests : pc[r] = "idle"
    /\ CreateEquipmentType(name, parentId)

NextDetect ==
    \/ \E name \in Names, parentId \in 0..MaxClassified : AddClassifiedType(name, parentId)
    \/ \E ok \in BOOLEAN : FindAll(1, ok)
    \/ CreateOptimizedPrompt(1)
    \/ \E outcome \in Outcomes : CallChatGPT(1, outcome)

SpecDetect == Init /\ [][NextDetect]_vars

\* ==== properties of detectEquipmentType (SpecDetect) ========================
ResultFields == {"confidence", "reasoning", "domain", "type", "category", "subcategory"}

\* C16: a failure anywhere in detectEquipmentType is not passed on to the
\* caller: the request completes and returns a result with confidence 0 and
\* none of domain, type, category, subcategory.
C16_FailureGivesEmptyResult ==
    caught # NoError =>
        /\ \E r \in Requests : pc[r] = "returned"
        /\ DOMAIN validatedDetection = ResultFields
        /\ validatedDetection.confidence = 0
        /\ \A lv \in 1..4 : FieldAt(validatedDetection, lv) = undefined

\* the classifier answered with a text that is not JSON and the request
\* returned the empty result
C16_Witness ==
    /\ pc[1] = "returned"
    /\ aiResponse.kind = "content"
    /\ caught = ParseError
    /\ validatedDetection = Catch(ParseError)
    /\ Len(snapshot[1]) > 0

\* the classifier's answer carried a text
Answered == aiResponse.kind = "content"

\* some part of the text is a well-formed object
ContainsObject(text) ==
    \E i \in DOMAIN text :
        \/ i + 1 <= Len(text) /\ SubSeq(text, i, i + 1) = <<"{", "}">>
        \/ i + 2 <= Len(text) /\ SubSeq(text, i, i + 2) = <<"{", "m", "}">>

\* the text from its first "{" to its last "}" is a well-formed object
SpanIsObject(text) ==
    \E i, j \in DOMAIN text :
        /\ text[i] = "{" /\ \A k \in 1..(i - 1) : text[k] # "{"
        /\ text[j] = "}" /\ \A k \in (j + 1)..Len(text) : text[k] # "}"
        /\ i < j
        /\ \/ j = i + 1
           \/ j = i + 2 /\ text[i + 1] = "m"

\* every field of the result is the candidate's or absent, and a field that
\* names no node of its level is absent
FieldsKeptOrDropped(d, v, ts) ==
    \A lv \in 1..4 :
        /\ FieldAt(v, lv) \in {undefined, FieldAt(d, lv)}
        /\ (~\E i \in DOMAIN ts : ts[i].level = lv /\ ts[i].name = FieldAt(d, lv))
           => FieldAt(v, lv) = undefined

SuppliedDetections ==
    [domain : Fields, type : Fields, category : Fields, subcategory : Fields,
     confidence : {NoNumber, 0, 95}, reasoning : {undefined, "", "because"}]

NextValidated ==
    \/ \E name \in Names, parentId \in 0..MaxClassified : AddClassifiedType(name, parentId)
    \/ \E ok \in BOOLEAN : FindAll(1, ok)
    \/ CreateOptimizedPrompt(1)
    \/ \E d \in SuppliedDetections :
           CallChatGPT(1, [kind |-> "content", text |-> <<"{", "m", "}">>,
                           members |-> d])

SpecValidated == Init /\ [][NextValidated]_vars

\* the answer was parsed and validated
Parsed == Answered /\ caught = NoError

\* C22 as stated: every supplied confidence and reasoning comes back
\* unchanged, whatever fields were accepted or dropped.
C22_SuppliedPassThrough ==
    Parsed =>
        /\ aiResponse.members.confidence # NoNumber
           => validatedDetection.confidence = aiResponse.members.confidence
        /\ aiResponse.members.reasoning # undefined
           => validatedDetection.reasoning = aiResponse.members.reasoning

\* C22: a supplied confidence comes back unchanged and an absent one as 0; a
\* supplied non-empty reasoning comes back unchanged and an absent or empty
\* one as 'No reasoning provided'; this is so whatever fields were accepted
\* or dropped, and dropping fields raises nothing.
C22_TruthyPassThrough ==
    Answered =>
        /\ SpanIsObject(aiResponse.text) => caught = NoError
        /\ Parsed =>
              /\ validatedDetection.confidence =
                    (IF aiResponse.members.confidence = NoNumber THEN 0
                     ELSE aiResponse.members.confidence)
              /\ validatedDetection.reasoning =
                    (IF aiResponse.members.reasoning \in {undefined, ""}
                     THEN "No reasoning provided"
                     ELSE aiResponse.members.reasoning)

\* a candidate with confidence 95 lost every one of its four fields and
\* came back with confidence 95 and its reasoning
C22_Witness ==
    /\ Parsed
    /\ aiResponse.members.confidence = 95
    /\ aiResponse.members.reasoning = "because"
    /\ \A lv \in 1..4 : /\ FieldAt(aiResponse.members, lv) # undefined
                        /\ FieldAt(validatedDetection, lv) = undefined
    /\ validatedDetection.confidence = 95
    /\ validatedDetection.reasoning = "because"
    /\ Len(snapshot[1]) > 0

\* ==== concurrent requests, writes and the clock (SpecStale) =================
\* createEquipmentType while requests are in flight
WriteEquipmentType(name, parentId) ==
    /\ Len(equipmentTypes) < MaxClassified
    /\ CreateEquipmentType(name, parentId)

\* time passes by a millisecond or by just under half a TTL
Delays == {1, TickMs - 1}
Pass(ms) ==
    /\ ms \in Delays
    /\ LET elapsed == now - CACHE_DURATION
       IN  IF ms = 1 THEN elapsed % (TickMs - 1) < MaxMillis
           ELSE elapsed \div (TickMs - 1) < MaxTicks
    /\ now' = now + ms
    /\ UNCHANGED <<equipmentTypes, rowsRead, requestVars, cascadeVars,
                   cachedHierarchySummary, lastCacheUpdate, hierarchySummary,
                   serviceVars, lastMutation>>

NextStale ==
    \/ \E name \in Names, parentId \in 0..MaxClassified : WriteEquipmentType(name, parentId)
    \/ \E r \in Requests, ok \in BOOLEAN : FindAll(r, ok)
    \/ \E r \in Requests : CreateOptimizedPrompt(r)
    \/ \E r \in Requests : CallChatGPT(r, [kind |-> "rejected"])
    \/ \E ms \in Delays : Pass(ms)

SpecStale == Init /\ [][NextStale]_vars

\* C18: a digest returned by a summary request made more than one TTL after
\* the most recent write to the tree is the digest of the tree with that
\* write, whatever the interleaving of the requests.
C18_BoundedStaleness ==
    [][ \A r \in Requests :
            (/\ CreateOptimizedPrompt(r)
             /\ Len(equipmentTypes) > 0
             /\ now - lastMutation > CACHE_DURATION)
            => hierarchySummary' = createHierarchySummary(equipmentTypes)
      ]_vars

\* ==== concurrent requests that are answered (SpecConcurrent) ================
\* the answers: the fetch fails, or the classifier names a domain and a type
ConcurrentOutcomes ==
    {[kind |-> "rejected"]}
    \cup
    {[kind |-> "content", text |-> <<"{", "m", "}">>,
      members |-> [domain |-> dom, type |-> typ, category |-> undefined,
                   subcategory |-> undefined, confidence |-> 95,
                   reasoning |-> "because"]] : dom \in Names, typ \in Names}

\* time passes, one TTL at a time: whatever is cached expires
Expire ==
    /\ now < CACHE_DURATION * (1 + MaxExpiries)
    /\ now' = now + CACHE_DURATION
    /\ UNCHANGED <<equipmentTypes, rowsRead, requestVars, cascadeVars,
                   cachedHierarchySummary, lastCacheUpdate, hierarchySummary,
                   serviceVars, lastMutation>>

NextConcurrent ==
    \/ \E name \in Names, parentId \in 0..MaxClassified : WriteEquipmentType(name, parentId)
    \/ \E r \in Requests, ok \in BOOLEAN : FindAll(r, ok)
    \/ \E r \in Requests : CreateOptimizedPrompt(r)
    \/ \E r \in Requests, outcome \in ConcurrentOutcomes : CallChatGPT(r, outcome)
    \/ Expire

SpecConcurrent == Init /\ [][NextConcurrent]_vars

\* the field of level lv of candidate d names a node of ts under the
\* candidate's field of level lv - 1
NamesNodeOf(d, ts, lv) ==
    \E i \in DOMAIN ts :
        /\ ts[i].level = lv
        /\ ts[i].name = FieldAt(d, lv)
        /\ lv > 1 => Parent(ts, ts[i]).name = FieldAt(d, lv - 1)

\* nothing is cached before the first stamp, and a cached digest is the
\* digest of the types some request read
CachedDigestWasRead ==
    /\ cachedHierarchySummary = null <=> lastCacheUpdate = 0
    /\ cachedHierarchySummary # null
       => \E r \in Requests :
             /\ pc[r] \in {"called", "returned"}
             /\ cachedHierarchySummary = createHierarchySummary(snapshot[r])

\* C24: under every interleaving of two requests and of writes, the cached
\* digest and its timestamp change together, in the one step in which a
\* request builds the digest of the types it read and stamps it with the
\* time of that step; and what a request returns for an answer is made of
\* the answer's fields that name nodes of the types that request read; in
\* every state the cached digest is the digest of types some request read.
C24_CacheConsistentResultsOwn ==
  /\ []CachedDigestWasRead
  /\
    [][ /\ (\/ cachedHierarchySummary' # cachedHierarchySummary
            \/ lastCacheUpdate' # lastCacheUpdate)
           => \E r \in Requests :
                 /\ pc[r] = "loaded" /\ pc'[r] = "called"
                 /\ cachedHierarchySummary' = createHierarchySummary(snapshot[r])
                 /\ lastCacheUpdate' = now
        /\ \A r \in Requests :
              (/\ pc[r] = "called" /\ pc'[r] = "returned"
               /\ aiResponse'.kind = "content")
              => \A lv \in 1..2 :
                    FieldAt(validatedDetection', lv) =
                       (IF NamesNodeOf(aiResponse'.members, snapshot[r], lv)
                        THEN FieldAt(aiResponse'.members, lv) ELSE undefined)
      ]_vars

\* both requests returned; the second read a larger table than the first,
\* the cache holds the digest of the first one's and the last result has a
\* domain that the first one's table has not
C24_Witness ==
    /\ pc[1] = "returned" /\ pc[2] = "returned"
    /\ Len(snapshot[1]) < Len(snapshot[2])
    /\ cachedHierarchySummary = createHierarchySummary(snapshot[1])
    /\ cachedHierarchySummary # createHierarchySummary(snapshot[2])
    /\ caught = NoError
    /\ validatedDetection.domain # undefined
    /\ ~\E i \in DOMAIN snapshot[1] :
           snapshot[1][i].name = validatedDetection.domain

====
